---- MODULE Spec2Model ----
(***************************************************************************)
(* lazybam: a chunked BAM reader (src/src/iterator.rs) and the record      *)
(* view / rebuild code (src/src/record.rs), modelled as state machines.    *)
(*                                                                         *)
(*   Spec        the BamReader: a mutex-guarded record source read in      *)
(*               batches of chunk_size by callers on separate threads.     *)
(*   SpecRecord  one PyBamRecord: its accessors, the record_override       *)
(*               setter and to_record_buf.                                 *)
(***************************************************************************)
EXTENDS Integers, Sequences, FiniteSets, TLC

\* ------------------------------------------------------------------ bounds
MaxSrc == 4
MaxChunk == 3
MaxCalls == 3

Threads == {"t1", "t2"}
NoThread == "none"

\* ---------------------------------------------------- Option / Result values
None == [tag |-> "None"]
Some(x) == [tag |-> "Some", val |-> x]
Ok(x) == [tag |-> "Ok", val |-> x]
Err == [tag |-> "Err"]

IsSome(o) == o.tag = "Some"
IsOk(r) == r.tag = "Ok"

VARIABLES
  outcomes,     \* what the source yields, read by read: "rec" or "err"; EOF after
  cursor,       \* number of outcomes the source has produced so far
  chunk_size,   \* BamReader.chunk_size
  guard,        \* holder of the Mutex around the reader, or NoThread
  pc,           \* per thread: position inside __next__
  v,            \* per thread: the Vec being filled inside the closure
  i,            \* per thread: loop counter of `for _ in 0..chunk_size`
  raw_recs,     \* per thread: value the allow_threads closure returned
  consumed,     \* per thread (history): records read from the source in this call
  failed,       \* per thread (history): this call hit a read error
  afterEnd,     \* per thread (history): call entered after a sentinel was returned
  overlapped,   \* history: some call was entered while another was in progress
  calls,        \* number of __next__ calls entered
  results,      \* history: what each finished __next__ call returned
  record,           \* PyBamRecord.record: the wrapped bam::Record
  record_override,  \* PyBamRecord.record_override: Option<RecordOverride>
  outcome           \* how the latest call on the PyBamRecord ended

readerVars == <<outcomes, cursor, chunk_size, guard, pc, v, i, raw_recs,
                consumed, failed, afterEnd, overlapped, calls, results>>

recordVars == <<record, record_override, outcome>>

vars == <<readerVars, recordVars>>

\* ------------------------------------------------------------ record source
\* All sequences over S of length 0..n.
RECURSIVE SeqsUpTo(_, _)
SeqsUpTo(S, n) ==
  IF n = 0 THEN {<<>>}
  ELSE LET shorter == SeqsUpTo(S, n - 1)
       IN shorter \cup {Append(s, x) : s \in {t \in shorter : Len(t) = n - 1}, x \in S}

SourceOutcome == {"rec", "err"}

\* guard.read_record(&mut rec): Ok(0) at end of stream, Ok(n) with the next
\* record otherwise, or an I/O error.  A record is named by its place in the
\* stream.
read_record(src, cur) ==
  IF cur >= Len(src) THEN Ok(0)
  ELSE IF src[cur + 1] = "rec" THEN Ok(cur + 1)
  ELSE Err

\* `for _ in 0..chunk_size`: the loop is over once i reaches chunk_size.
LoopDoneOffByOne(n, size) == n >= size + 1
LoopDone(n, size) == n >= size

\* reader_clone.lock(): the mutex can be taken only when nobody holds it.
MutexAlwaysFree(g) == TRUE
MutexFree(g) == g = NoThread

\* Err(e) => return vec![]: what the closure returns on a read error.
ErrorBatchPartial(vec) == vec
ErrorBatch(vec) == <<>>

\* if raw_recs.is_empty() { return Ok(None) } ... Ok(Some(out))
NextResult(raw) == IF raw = <<>> THEN None ELSE Some(raw)

SentinelReturned == \E j \in 1..Len(results) : results[j].batch = None

\* ------------------------------------------------------------ reader: Init
InitReader ==
  /\ outcomes \in SeqsUpTo(SourceOutcome, MaxSrc)
  /\ cursor = 0
  /\ chunk_size \in 0..MaxChunk
  /\ guard = NoThread
  /\ pc = [t \in Threads |-> "idle"]
  /\ v = [t \in Threads |-> <<>>]
  /\ i = [t \in Threads |-> 0]
  /\ raw_recs = [t \in Threads |-> <<>>]
  /\ consumed = [t \in Threads |-> <<>>]
  /\ failed = [t \in Threads |-> FALSE]
  /\ afterEnd = [t \in Threads |-> FALSE]
  /\ overlapped = FALSE
  /\ calls = 0
  /\ results = <<>>

\* --------------------------------------------------------- reader: actions
\* __next__ is entered: chunk_size is read, the Arc is cloned and the GIL is
\* released for the closure.  The exclusive borrow that pyo3 takes on the
\* BamReader for the duration of the call is not modelled: two callers may be
\* inside __next__ together, so the mutex alone has to keep their reads apart.
Enter(t) ==
  /\ pc[t] = "idle"
  /\ calls < MaxCalls
  /\ calls' = calls + 1
  /\ pc' = [pc EXCEPT ![t] = "lock"]
  /\ afterEnd' = [afterEnd EXCEPT ![t] = SentinelReturned]
  /\ overlapped' = (overlapped \/ \E u \in Threads \ {t} : pc[u] # "idle")
  /\ consumed' = [consumed EXCEPT ![t] = <<>>]
  /\ failed' = [failed EXCEPT ![t] = FALSE]
  /\ UNCHANGED <<outcomes, cursor, chunk_size, guard, v, i, raw_recs, results,
                 recordVars>>

\* let mut guard = reader_clone.lock().unwrap(); let mut v = Vec::with_capacity(..)
Lock(t) ==
  /\ pc[t] = "lock"
  /\ MutexFree(guard)
  /\ guard' = t
  /\ v' = [v EXCEPT ![t] = <<>>]
  /\ i' = [i EXCEPT ![t] = 0]
  /\ pc' = [pc EXCEPT ![t] = "loop"]
  /\ UNCHANGED <<outcomes, cursor, chunk_size, raw_recs, consumed, failed,
                 afterEnd, overlapped, calls, results, recordVars>>

\* The closure returns `ret`; the guard is dropped with it.
Leave(t, ret) ==
  /\ raw_recs' = [raw_recs EXCEPT ![t] = ret]
  /\ guard' = IF guard = t THEN NoThread ELSE guard
  /\ pc' = [pc EXCEPT ![t] = "ret"]

\* The loop has run chunk_size times: the closure returns v.
LoopExit(t) ==
  /\ pc[t] = "loop"
  /\ LoopDone(i[t], chunk_size)
  /\ Leave(t, v[t])
  /\ UNCHANGED <<outcomes, cursor, chunk_size, v, i, consumed, failed,
                 afterEnd, overlapped, calls, results, recordVars>>

\* Ok(0) => break
ReadEof(t) ==
  /\ pc[t] = "loop"
  /\ ~LoopDone(i[t], chunk_size)
  /\ read_record(outcomes, cursor) = Ok(0)
  /\ Leave(t, v[t])
  /\ UNCHANGED <<outcomes, cursor, chunk_size, v, i, consumed, failed,
                 afterEnd, overlapped, calls, results, recordVars>>

\* Ok(_) => v.push(rec)
ReadOk(t) ==
  /\ pc[t] = "loop"
  /\ ~LoopDone(i[t], chunk_size)
  /\ LET r == read_record(outcomes, cursor)
     IN /\ IsOk(r)
        /\ r.val # 0
        /\ v' = [v EXCEPT ![t] = Append(@, r.val)]
        /\ consumed' = [consumed EXCEPT ![t] = Append(@, r.val)]
  /\ cursor' = cursor + 1
  /\ i' = [i EXCEPT ![t] = @ + 1]
  /\ UNCHANGED <<outcomes, chunk_size, guard, pc, raw_recs, failed,
                 afterEnd, overlapped, calls, results, recordVars>>

\* Err(e) => { eprintln!(..); return vec![]; }
ReadErr(t) ==
  /\ pc[t] = "loop"
  /\ ~LoopDone(i[t], chunk_size)
  /\ read_record(outcomes, cursor) = Err
  /\ cursor' = cursor + 1
  /\ failed' = [failed EXCEPT ![t] = TRUE]
  /\ Leave(t, ErrorBatch(v[t]))
  /\ UNCHANGED <<outcomes, chunk_size, v, i, consumed, afterEnd, overlapped,
                 calls, results, recordVars>>

\* Back under the GIL: None for an empty Vec, otherwise the wrapped records.
Return(t) ==
  /\ pc[t] = "ret"
  /\ results' = Append(results, [caller |-> t,
                                 batch |-> NextResult(raw_recs[t]),
                                 consumed |-> consumed[t],
                                 failed |-> failed[t],
                                 afterEnd |-> afterEnd[t]])
  /\ pc' = [pc EXCEPT ![t] = "idle"]
  /\ UNCHANGED <<outcomes, cursor, chunk_size, guard, v, i, raw_recs,
                 consumed, failed, afterEnd, overlapped, calls, recordVars>>


Next ==
  \E t \in Threads :
    \/ Enter(t)
    \/ Lock(t)
    \/ LoopExit(t)
    \/ ReadEof(t)
    \/ ReadOk(t)
    \/ ReadErr(t)
    \/ Return(t)

\* =========================================================================
\* PyBamRecord (src/src/record.rs, and the older view in src/src/iterator.rs)
\* =========================================================================
MaxCigar == 2
MaxData == 2
MissingMapq == 255

\* sam::alignment::record::cigar::op::Kind, in declaration order.
Kinds == <<"Match", "Insertion", "Deletion", "Skip", "SoftClip", "HardClip",
           "Pad", "SequenceMatch", "SequenceMismatch">>

\* PyKind::from(kind) as u32 / op.kind() as u32: the ordinal, Match = 0.
PyKind(kind) == (CHOOSE n \in 1..Len(Kinds) : Kinds[n] = kind) - 1

RECURSIVE SeqMap(_, _)
SeqMap(F(_), s) == IF s = <<>> THEN <<>> ELSE <<F(Head(s))>> \o SeqMap(F, Tail(s))

\* iter().filter_map(Result::ok).collect()
RECURSIVE FilterOk(_)
FilterOk(s) ==
  IF s = <<>> THEN <<>>
  ELSE IF IsOk(Head(s)) THEN <<Head(s).val>> \o FilterOk(Tail(s))
  ELSE FilterOk(Tail(s))

\* ------------------------------------------------------------- accessors
\* record.name().map(|b| b.to_string()).unwrap_or_default()
qname(rec) == IF IsSome(rec.name) THEN rec.name.val ELSE ""

\* u16::from(record.flags())
flag(rec) == rec.flags

\* alignment_start().and_then(|r| r.ok()).map(|p| usize::from(p) as i64).unwrap_or(-1)
pos(rec) ==
  LET flat == IF IsSome(rec.alignment_start) /\ IsOk(rec.alignment_start.val)
              THEN Some(rec.alignment_start.val.val) ELSE None
  IN IF IsSome(flat) THEN flat.val ELSE -1

\* The same getter of the view in iterator.rs.
iterator_pos(rec) ==
  LET flat == IF IsSome(rec.alignment_start) /\ IsOk(rec.alignment_start.val)
              THEN Some(rec.alignment_start.val.val) ELSE None
  IN IF IsSome(flat) THEN flat.val ELSE -1

\* mapping_quality().map(u8::from).unwrap_or(255)
mapq(rec) == IF IsSome(rec.mapping_quality) THEN rec.mapping_quality.val ELSE MissingMapq

\* sequence().iter().map(|b| b as char).collect::<String>()
AsChar(b) == [char |-> b]
seq(rec) == SeqMap(AsChar, rec.sequence)

\* String::into_bytes(): the UTF-8 encoding of each char.
Utf8(c) == IF c.char < 128 THEN <<c.char>>
           ELSE <<192 + (c.char \div 64), 128 + (c.char % 64)>>
RECURSIVE IntoBytes(_)
IntoBytes(str) == IF str = <<>> THEN <<>> ELSE Utf8(Head(str)) \o IntoBytes(Tail(str))

\* (kind as u32, len as u32): a BAM op length has 28 bits, the casts keep it.
CigarPair(op) == <<PyKind(op.kind), op.len>>

\* record.rs cigar(): failed ops are filtered out, the rest become (kind, len).
cigar(rec) == SeqMap(CigarPair, FilterOk(rec.cigar))

\* iterator.rs cigar(): a failed op becomes (Match, 0); rows of the (n, 2) array.
IteratorCigarOp(r) == IF IsOk(r) THEN [kind |-> r.val.kind, len |-> r.val.len]
                      ELSE [kind |-> "Match", len |-> 0]
iterator_cigar(rec) == SeqMap(CigarPair, SeqMap(IteratorCigarOp, rec.cigar))

\* tags(): one (key, value) per field that decodes.
TagPair(f) == <<f.tag, f.value>>
tags(rec) == SeqMap(TagPair, FilterOk(rec.data))

\* --------------------------------------------------------- to_record_buf
\* Data::try_from(record.data()): fails when a field does not decode.
DataTryFrom(fields) ==
  IF \E k \in 1..Len(fields) : ~IsOk(fields[k]) THEN Err ELSE Ok(FilterOk(fields))

\* .unwrap_or_default() on the Data
UnwrapOrDefault(r) == IF IsOk(r) THEN r.val ELSE <<>>

\* data.insert(tag, value): replaces the value of an existing tag, else appends.
DataInsert(data, f) ==
  IF \E k \in 1..Len(data) : data[k].tag = f.tag
  THEN [k \in 1..Len(data) |-> IF data[k].tag = f.tag THEN f ELSE data[k]]
  ELSE Append(data, f)

\* for (tag, value) in &r_override.tags { data.insert(*tag, value.clone()); }
RECURSIVE InsertAll(_, _)
InsertAll(data, fs) ==
  IF fs = <<>> THEN data ELSE InsertAll(DataInsert(data, Head(fs)), Tail(fs))

\* Position::try_from(n): a Position is a non-zero usize.
PositionTryFrom(n) == IF n >= 1 THEN Ok(n) ELSE Err

\* MappingQuality::try_from(n): 255 is the missing value and is refused.
MappingQualityTryFrom(n) == IF n = MissingMapq THEN Err ELSE Ok(n)

\* Flags::from_bits_truncate(bits): the twelve defined flag bits are kept.
FromBitsTruncate(bits) == bits % 4096

\* What a call leaves when it produces no RecordBuf.
NoRecordBuf ==
  [name |-> "", flags |-> 0, cigar |-> <<>>, sequence |-> <<>>, quality_scores |-> <<>>,
   data |-> <<>>, reference_sequence_id |-> 0, alignment_start |-> 0,
   mapping_quality |-> 0]

\* The three ways to_record_buf ends: Err(anyhow!(msg)), a panic in unwrap(),
\* or Ok(b.build()).
AnyhowErr(msg) == [kind |-> "Err", msg |-> msg, built |-> NoRecordBuf]
Panic(at) == [kind |-> "Panic", msg |-> at, built |-> NoRecordBuf]
Returned(buf) == [kind |-> "Ok", msg |-> "", built |-> buf]

to_record_buf(rec, ov) ==
  LET seqb == IntoBytes(seq(rec))
      qual == rec.quality_scores
      data0 == UnwrapOrDefault(DataTryFrom(rec.data))
      start == rec.alignment_start
  IN
  IF IsSome(start) /\ ~IsOk(start.val)
  THEN AnyhowErr("Invalid alignment start position")
  ELSE
  LET position == IF IsSome(start) THEN start.val ELSE PositionTryFrom(0) IN
  IF ~IsOk(position) THEN Panic("Position::try_from(0).unwrap()")
  ELSE
  LET cigar0 == FilterOk(rec.cigar)
      rid == rec.reference_sequence_id
  IN
  IF IsSome(rid) /\ ~IsOk(rid.val)
  THEN AnyhowErr("Invalid reference sequence ID")
  ELSE
  LET ref0 == IF IsSome(rid) THEN rid.val.val ELSE 0
      data == IF IsSome(ov) THEN InsertAll(data0, ov.val.tags) ELSE data0
      cigar_vec == IF IsSome(ov) /\ IsSome(ov.val.cigar)
                   THEN FilterOk(ov.val.cigar.val) ELSE cigar0
      ref_id == IF IsSome(ov) /\ IsSome(ov.val.reference_sequence_id)
                THEN ov.val.reference_sequence_id.val ELSE ref0
      mq == MappingQualityTryFrom(mapq(rec))
  IN
  IF ~IsOk(mq) THEN Panic("MappingQuality::try_from(mapq).unwrap()")
  ELSE Returned([name |-> qname(rec),
                 flags |-> FromBitsTruncate(flag(rec)),
                 cigar |-> cigar_vec,
                 sequence |-> seqb,
                 quality_scores |-> qual,
                 data |-> data,
                 reference_sequence_id |-> ref_id,
                 alignment_start |-> position.val,
                 mapping_quality |-> mq.val])

\* ---------------------------------------------------------- record inputs
RawOps == {Err, Ok([kind |-> "Insertion", len |-> 2])}

RawFields == {Err, Ok([tag |-> "NM", value |-> 1]), Ok([tag |-> "XX", value |-> 1])}

\* Fields of one record carry distinct tags.
DistinctTags(fs) ==
  \A a, b \in 1..Len(fs) : (a # b /\ IsOk(fs[a]) /\ IsOk(fs[b])) => fs[a].val.tag # fs[b].val.tag

Bases == {[sequence |-> <<65, 67>>, quality_scores |-> <<30, 31>>]}

Records ==
  {[name |-> n, flags |-> f, alignment_start |-> a, mapping_quality |-> q,
    reference_sequence_id |-> r, sequence |-> b.sequence,
    quality_scores |-> b.quality_scores, cigar |-> c, data |-> d] :
     n \in {None, Some("r1")}, f \in {0, 16},
     a \in {None, Some(Ok(1)), Some(Err)}, q \in {None, Some(60)},
     r \in {None, Some(Ok(1)), Some(Err)}, b \in Bases,
     c \in SeqsUpTo(RawOps, MaxCigar),
     d \in {fs \in SeqsUpTo(RawFields, MaxData) : DistinctTags(fs)}}

\* RecordOverride { tags, cigar, reference_sequence_id } as to_record_buf reads it.
RecordOverrides ==
  [tags : {<<>>, <<[tag |-> "NM", value |-> 2]>>, <<[tag |-> "XX", value |-> 2]>>,
           <<[tag |-> "NM", value |-> 2], [tag |-> "XX", value |-> 2]>>},
   cigar : {None, Some(<<Err, Ok([kind |-> "Match", len |-> 5])>>)},
   reference_sequence_id : {None, Some(2)}]

\* bam::Record::default(), wrapped by from_record with no override.
DefaultRecord ==
  [name |-> None, flags |-> 0, alignment_start |-> None, mapping_quality |-> None,
   reference_sequence_id |-> None, sequence |-> <<>>, quality_scores |-> <<>>,
   cigar |-> <<>>, data |-> <<>>]

\* outcome: the call made last (op), how it ended (kind) and what it gave: an
\* integer (int), CIGAR pairs (cigar), tag pairs (tags), or to_record_buf's
\* message and record (msg, built).
NoOutcome ==
  [op |-> "none", kind |-> "none", int |-> 0, cigar |-> <<>>, tags |-> <<>>,
   msg |-> "", built |-> NoRecordBuf]

\* PyBamRecord::from_record(record): the record, and no override.
InitRecord ==
  /\ record \in Records
  /\ record_override = None
  /\ outcome = NoOutcome
  /\ outcomes = <<>>
  /\ cursor = 0
  /\ chunk_size = 1
  /\ guard = NoThread
  /\ pc = [t \in Threads |-> "idle"]
  /\ v = [t \in Threads |-> <<>>]
  /\ i = [t \in Threads |-> 0]
  /\ raw_recs = [t \in Threads |-> <<>>]
  /\ consumed = [t \in Threads |-> <<>>]
  /\ failed = [t \in Threads |-> FALSE]
  /\ afterEnd = [t \in Threads |-> FALSE]
  /\ overlapped = FALSE
  /\ calls = 0
  /\ results = <<>>

\* --------------------------------------------------------- record actions
\* #[setter] set_record_override
SetRecordOverride ==
  /\ \E o \in RecordOverrides : record_override' = Some(o)
  /\ outcome' = NoOutcome
  /\ UNCHANGED <<record, readerVars>>

GetPos ==
  /\ outcome' = [NoOutcome EXCEPT !.op = "pos", !.kind = "Ok", !.int = pos(record)]
  /\ UNCHANGED <<record, record_override, readerVars>>

GetIteratorPos ==
  /\ outcome' = [NoOutcome EXCEPT !.op = "iterator_pos", !.kind = "Ok",
                                  !.int = iterator_pos(record)]
  /\ UNCHANGED <<record, record_override, readerVars>>

GetCigar ==
  /\ outcome' = [NoOutcome EXCEPT !.op = "cigar", !.kind = "Ok", !.cigar = cigar(record)]
  /\ UNCHANGED <<record, record_override, readerVars>>

GetIteratorCigar ==
  /\ outcome' = [NoOutcome EXCEPT !.op = "iterator_cigar", !.kind = "Ok",
                                  !.cigar = iterator_cigar(record)]
  /\ UNCHANGED <<record, record_override, readerVars>>

GetTags ==
  /\ outcome' = [NoOutcome EXCEPT !.op = "tags", !.kind = "Ok", !.tags = tags(record)]
  /\ UNCHANGED <<record, record_override, readerVars>>

ToRecordBuf ==
  /\ LET r == to_record_buf(record, record_override)
     IN outcome' = [NoOutcome EXCEPT !.op = "to_record_buf", !.kind = r.kind,
                                     !.msg = r.msg, !.built = r.built]
  /\ UNCHANGED <<record, record_override, readerVars>>

NextRecord ==
  \/ SetRecordOverride
  \/ GetPos
  \/ GetIteratorPos
  \/ GetCigar
  \/ GetIteratorCigar
  \/ GetTags
  \/ ToRecordBuf

\* ---------------------------------------------------------- specifications
Init ==
  /\ InitReader
  /\ record = DefaultRecord
  /\ record_override = None
  /\ outcome = NoOutcome

Spec == Init /\ [][Next]_vars

SpecRecord == InitRecord /\ [][NextRecord]_vars

\* =========================================================================
\* Properties of the BamReader (checked under Spec)
\* =========================================================================
NoErrors(src) == \A k \in 1..Len(src) : src[k] = "rec"

Min(a, b) == IF a <= b THEN a ELSE b

\* The j-th batch of a source of m records read n at a time; None past the end.
ExpectedBatch(j, m, n) ==
  IF (j - 1) * n < m
  THEN Some([k \in 1..Min(n, m - (j - 1) * n) |-> (j - 1) * n + k])
  ELSE None

\* C1: with a source of M records that never errors and chunk_size N >= 1,
\* successive (non-overlapping) __next__ calls return the records in source
\* order, N at a time, then a final batch of M mod N records when that is not
\* zero, and None from then on.
C1_BatchesInSourceOrder ==
  (NoErrors(outcomes) /\ chunk_size >= 1 /\ ~overlapped) =>
    \A j \in 1..Len(results) :
      results[j].batch = ExpectedBatch(j, Len(outcomes), chunk_size)

\* Four records read three at a time: batches of 3 and 1, then the sentinel.
C1_Witness ==
  /\ NoErrors(outcomes) /\ ~overlapped
  /\ Len(outcomes) = 4 /\ chunk_size = 3
  /\ Len(results) = 3
  /\ results[1].batch = Some(<<1, 2, 3>>)
  /\ results[2].batch = Some(<<4>>)
  /\ results[3].batch = None

Contiguous(s) == \A k \in 1..(Len(s) - 1) : s[k + 1] = s[k] + 1

Elems(s) == {s[k] : k \in 1..Len(s)}

Delivered(j) == IF IsSome(results[j].batch) THEN Elems(results[j].batch.val) ELSE {}

\* C2: with concurrent callers at most one batch read is in flight (the lock
\* is held by the one thread inside the read loop), every returned batch is a
\* contiguous run of source records, and no record is delivered twice.
C2_OneBatchReadInFlight ==
  /\ Cardinality({t \in Threads : pc[t] = "loop"}) <= 1
  /\ \A t \in Threads : pc[t] = "loop" <=> guard = t
  /\ \A j \in 1..Len(results) :
       IsSome(results[j].batch) => Contiguous(results[j].batch.val)
  /\ \A j, k \in 1..Len(results) : j # k => Delivered(j) \cap Delivered(k) = {}

\* Two overlapping calls from different threads both came back with records.
C2_Witness ==
  /\ overlapped
  /\ Len(results) = 2
  /\ results[1].caller # results[2].caller
  /\ Len(results[1].consumed) >= 2 /\ Len(results[2].consumed) >= 2
  /\ IsSome(results[1].batch) /\ IsSome(results[2].batch)

\* C3: once a __next__ call has returned None, every call made afterwards
\* returns None as well.
C3_SentinelIsTerminal ==
  \A j \in 1..Len(results) : results[j].afterEnd => results[j].batch = None

\* C4: a call whose batch read hit an I/O error returns None, and the records
\* it had already read are returned by no call at all.
C4_FailedBatchDropped ==
  \A j \in 1..Len(results) :
    results[j].failed =>
      /\ results[j].batch = None
      /\ \A k \in 1..Len(results) : Elems(results[j].consumed) \cap Delivered(k) = {}

\* A call lost a record to an error on its second read, and a later call
\* returned records.
C4_Witness ==
  \E j, k \in 1..Len(results) :
    /\ j < k
    /\ results[j].failed /\ Len(results[j].consumed) >= 1
    /\ IsSome(results[k].batch)

\* =========================================================================
\* Properties of PyBamRecord (checked under SpecRecord)
\* =========================================================================
Malformed(field) == IsSome(field) /\ ~IsOk(field.val)

Valid(field) == IsSome(field) /\ IsOk(field.val)

Rebuilt == outcome.op = "to_record_buf"

\* C5: the position accessor returns the 1-based start when the position is
\* present and valid, -1 when it is absent, and fails (returns nothing) when
\* the position is present but malformed.
C5_MalformedPositionFails ==
  outcome.op \in {"pos", "iterator_pos"} =>
    /\ Valid(record.alignment_start) =>
         (outcome.kind = "Ok" /\ outcome.int = record.alignment_start.val.val)
    /\ record.alignment_start = None => (outcome.kind = "Ok" /\ outcome.int = -1)
    /\ Malformed(record.alignment_start) => outcome.kind = "Err"

OverrideId ==
  IF IsSome(record_override) THEN record_override.val.reference_sequence_id ELSE None

ResolvedId ==
  IF IsSome(OverrideId) THEN OverrideId.val
  ELSE IF Valid(record.reference_sequence_id) THEN record.reference_sequence_id.val.val
  ELSE 0

\* C6: a rebuilt record carries the override's reference id when there is one,
\* else the original id when present and valid, else 0; rebuild fails on the
\* reference id only when the original id is malformed and no override id
\* supersedes it.
C6_OverrideIdSupersedesMalformedId ==
  Rebuilt =>
    /\ outcome.kind = "Ok" => outcome.built.reference_sequence_id = ResolvedId
    /\ (outcome.kind = "Err" /\ outcome.msg = "Invalid reference sequence ID") =>
         (Malformed(record.reference_sequence_id) /\ ~IsSome(OverrideId))
    /\ (Malformed(record.reference_sequence_id) /\ ~IsSome(OverrideId)) =>
         outcome.kind # "Ok"

\* C7: rebuilding a view that has no override (and no malformed position or
\* reference id) succeeds, and the result has the view's name, flags,
\* sequence, quality scores, CIGAR and tags, also when the position or the
\* mapping quality is unavailable.
C7_RebuildWithoutOverrideReproducesView ==
  (/\ Rebuilt
   /\ record_override = None
   /\ ~Malformed(record.alignment_start)
   /\ ~Malformed(record.reference_sequence_id)) =>
    /\ outcome.kind = "Ok"
    /\ outcome.built.name = qname(record)
    /\ outcome.built.flags = flag(record)
    /\ SeqMap(AsChar, outcome.built.sequence) = seq(record)
    /\ outcome.built.quality_scores = record.quality_scores
    /\ SeqMap(CigarPair, outcome.built.cigar) = cigar(record)
    /\ SeqMap(TagPair, outcome.built.data) = tags(record)

OverrideTagNames ==
  {record_override.val.tags[k].tag : k \in 1..Len(record_override.val.tags)}

\* C8: a rebuilt record's tags are the view's tags merged with the override's:
\* every view tag not named by the override keeps its value, every override
\* tag is present, and no tag name occurs twice.
C8_OverrideTagsAreMerged ==
  (Rebuilt /\ outcome.kind = "Ok" /\ IsSome(record_override)) =>
    LET built == Elems(outcome.built.data)
        orig == Elems(tags(record))
    IN /\ \A t \in orig :
            t[1] \notin OverrideTagNames => [tag |-> t[1], value |-> t[2]] \in built
       /\ Elems(record_override.val.tags) \subseteq built
       /\ \A a, b \in built : a.tag = b.tag => a = b

\* The position a rebuilt record carries when the view has none.
Unplaced == 0

\* C9: a rebuild ends with a complete record or with an error value and in no
\* other way; an unavailable mapping quality (255) gives an error, and an
\* absent position gives a record at the unplaced position.
C9_RebuildIsTotal ==
  Rebuilt =>
    /\ outcome.kind \in {"Ok", "Err"}
    /\ mapq(record) = MissingMapq => outcome.kind = "Err"
    /\ (/\ record.alignment_start = None
        /\ mapq(record) # MissingMapq
        /\ ~Malformed(record.reference_sequence_id)) =>
         (outcome.kind = "Ok" /\ outcome.built.alignment_start = Unplaced)

\* One pair per raw op, (Match, 0) where the op does not parse.
ExpectedCigar(ops) ==
  [k \in 1..Len(ops) |->
     IF IsOk(ops[k]) THEN <<PyKind(ops[k].val.kind), ops[k].val.len>> ELSE <<0, 0>>]

\* C10: the cigar accessor never fails and returns one (kind, length) pair per
\* raw op, in order, with (Match, 0) in the place of every op that fails to
\* parse.
C10_CigarKeepsOpCount ==
  outcome.op \in {"cigar", "iterator_cigar"} =>
    /\ outcome.kind = "Ok"
    /\ Len(outcome.cigar) = Len(record.cigar)
    /\ outcome.cigar = ExpectedCigar(record.cigar)

====
